---- MODULE Spec2Model ----
(***************************************************************************)
(* Triathlon Race Scheduler: the recovery / conflict calculator            *)
(* (frontend/src/utils/dateUtils), the RaceModal form and the Express      *)
(* server's create endpoints, as state machines.                           *)
(*                                                                         *)
(* A calendar date string 'YYYY-MM-DD' is the record [y, m, d] of its      *)
(* three fields.  A JavaScript Date is [day, clock]: the local calendar    *)
(* day counted from 2025-01-01 and the local wall-clock millisecond of     *)
(* that day.  The elapsed time between two Dates (a difference of          *)
(* getTime() values) depends on the zone the browser runs in: a local day  *)
(* lasts 23, 24 or 25 hours.                                               *)
(***************************************************************************)
EXTENDS Integers, Sequences, FiniteSets, TLC

VARIABLES
    tz,            \* the browser's time zone (environment)
    races,         \* calculator input: the list of existing races
    proposedRace,  \* calculator input: the candidate race
    anchorDate,    \* calculator input: the Date given to getCalendarDays
    outcome,       \* the last calculator call and what it returned or threw
    modal,         \* RaceModal: props, formData, conflict
    ui,            \* RaceModal: what handleSubmit did (onSave / onClose calls)
    db,            \* server: the rows of the races table
    events,        \* server: the events table of the database file, if any
    uuid,          \* server: how many ids uuidv4() has handed out
    http,          \* server: the last request and its response
    app,           \* App: races, loading, error
    net,           \* App: the fetch calls that have not settled yet
    now,           \* ListView, Calendar: new Date(), the current time
    calendar       \* Calendar: currentDate and calendarDays

vars ==
    <<tz, races, proposedRace, anchorDate, outcome, modal, ui, db, events, uuid,
      http, app, net, now, calendar>>

(***************************************************************************)
(* Bounds of the model.                                                    *)
(***************************************************************************)
\* longest list of existing races given to detectSchedulingConflicts
MaxRaces == 2
\* longest list of races given to getCalendarDays
MaxCalendarRaces == 3
\* number of consecutive anchor days (after the first) tried for the grid
AnchorSpan == 7
\* number of consecutive candidate days (after the first) tried
CandidateSpan == 33
\* most rows the races table holds
MaxRows == 2

(***************************************************************************)
(* The Gregorian calendar, as JavaScript's Date and date-fns compute it.   *)
(***************************************************************************)
\* Day 0 of the model's day count is 2025-01-01, a Wednesday; getDay()
\* counts weekdays from Sunday = 0
Epoch == [year |-> 2025, weekday |-> 3]

IsLeapYear(y) == (y % 4 = 0 /\ y % 100 # 0) \/ y % 400 = 0

DaysInYear(y) == IF IsLeapYear(y) THEN 366 ELSE 365

DaysInMonth(y, m) ==
    IF m = 2 THEN (IF IsLeapYear(y) THEN 29 ELSE 28)
    ELSE IF m \in {4, 6, 9, 11} THEN 30 ELSE 31

RECURSIVE DaysBeforeYear(_)
DaysBeforeYear(y) ==
    IF y <= Epoch.year THEN 0 ELSE DaysBeforeYear(y - 1) + DaysInYear(y - 1)

RECURSIVE DaysBeforeMonth(_, _)
DaysBeforeMonth(y, m) ==
    IF m <= 1 THEN 0 ELSE DaysBeforeMonth(y, m - 1) + DaysInMonth(y, m - 1)

\* the day number of the civil date y-m-d
DayNumber(y, m, d) == DaysBeforeYear(y) + DaysBeforeMonth(y, m) + (d - 1)

RECURSIVE CivilFrom(_, _, _)
CivilFrom(y, m, n) ==
    IF m = 1 /\ n >= DaysInYear(y) THEN CivilFrom(y + 1, 1, n - DaysInYear(y))
    ELSE IF n >= DaysInMonth(y, m) THEN CivilFrom(y, m + 1, n - DaysInMonth(y, m))
    ELSE [y |-> y, m |-> m, d |-> n + 1]

\* the calendar covers the years 2025 and 2026
LastDay == DaysInYear(Epoch.year) + DaysInYear(Epoch.year + 1) - 1

CivilTable == [n \in 0..LastDay |-> CivilFrom(Epoch.year, 1, n)]

\* the civil date (year, month, day of month) of a day number
Civil(n) == CivilTable[n]

MsPerDay == 1000 * 60 * 60 * 24
MsPerHour == 1000 * 60 * 60

\* new Date(y, m, d) at local midnight
Midnight(n) == [day |-> n, clock |-> 0]

\* Date.prototype.getDay: 0 = Sunday .. 6 = Saturday
getDay(date) == (Epoch.weekday + date.day) % 7

\* the k-th (k >= 1) Sunday of month m of year y, as a day number
NthSunday(y, m, k) ==
    LET first == DayNumber(y, m, 1)
        toSunday == (7 - getDay(Midnight(first))) % 7
    IN  first + toSunday + 7 * (k - 1)

\* the last Sunday of month m of year y, as a day number
LastSunday(y, m) ==
    LET last == DayNumber(y, m, DaysInMonth(y, m))
    IN  last - getDay(Midnight(last))

TimeZones == {"UTC", "America/New_York", "Europe/Berlin"}

\* the length of local day n in zone z: clocks go forward one hour on the
\* spring day and back one hour on the autumn day (both at night, on a Sunday)
ZoneDayLength(z, n) ==
    LET y == Civil(n).y
    IN  IF z = "America/New_York" /\ n = NthSunday(y, 3, 2) THEN MsPerDay - MsPerHour
        ELSE IF z = "America/New_York" /\ n = NthSunday(y, 11, 1) THEN MsPerDay + MsPerHour
        ELSE IF z = "Europe/Berlin" /\ n = LastSunday(y, 3) THEN MsPerDay - MsPerHour
        ELSE IF z = "Europe/Berlin" /\ n = LastSunday(y, 10) THEN MsPerDay + MsPerHour
        ELSE MsPerDay

DayLengthTable == [z \in TimeZones |-> [n \in 0..LastDay |-> ZoneDayLength(z, n)]]

DayLengthMs(z, n) == DayLengthTable[z][n]

\* milliseconds elapsed since the local midnight of date's day (the clock
\* change happens before 03:00; every non-midnight clock used here is later)
ElapsedInDay(z, date) ==
    IF date.clock = 0 THEN 0
    ELSE date.clock + (DayLengthMs(z, date.day) - MsPerDay)

RECURSIVE MsOfDays(_, _, _)
MsOfDays(z, from, to) ==
    IF from >= to THEN 0 ELSE DayLengthMs(z, from) + MsOfDays(z, from + 1, to)

\* later.getTime() - earlier.getTime(), for later not before earlier
msBetween(z, later, earlier) ==
    MsOfDays(z, earlier.day, later.day)
        + ElapsedInDay(z, later) - ElapsedInDay(z, earlier)

\* the order of getTime() values
DateLE(a, b) == a.day < b.day \/ (a.day = b.day /\ a.clock <= b.clock)

(***************************************************************************)
(* date-fns                                                                *)
(***************************************************************************)
\* parseISO of a well-formed 'YYYY-MM-DD': local midnight of that civil date
parseISO(s) == Midnight(DayNumber(s.y, s.m, s.d))

\* format(date, 'yyyy-MM-dd')
formatDate(date) == Civil(date.day)

\* addDays / subDays: setDate(getDate() + amount), the wall clock is kept
addDays(date, amount) == [day |-> date.day + amount, clock |-> date.clock]

subDays(date, amount) == addDays(date, -amount)

\* startOfWeek(date, { weekStartsOn: 1 })
startOfWeek(date) ==
    LET day == getDay(date)
        diff == (IF day < 1 THEN 7 ELSE 0) + day - 1
    IN  [day |-> date.day - diff, clock |-> 0]

\* endOfWeek(date, { weekStartsOn: 1 }): 23:59:59.999 of the week's Sunday
endOfWeek(date) ==
    LET day == getDay(date)
        diff == (IF day < 1 THEN -7 ELSE 0) + 6 - (day - 1)
    IN  [day |-> date.day + diff, clock |-> MsPerDay - 1]

\* eachDayOfInterval: the local midnights from start's day while <= end
eachDayOfInterval(start, end) ==
    [i \in 1..(end.day - start.day + 1) |-> Midnight(start.day + i - 1)]

isSameDay(a, b) == a.day = b.day

isSameMonth(a, b) ==
    Civil(a.day).y = Civil(b.day).y /\ Civil(a.day).m = Civil(b.day).m

\* (variant: the end of the interval left out)
isWithinInterval_endExclusive(date, start, end) ==
    DateLE(start, date) /\ DateLE(date, end) /\ date # end

isWithinInterval(date, start, end) == DateLE(start, date) /\ DateLE(date, end)

\* (variant: the date itself)
startOfMonth_unchanged(date) == date

\* startOfMonth: local midnight of the first day of date's month
startOfMonth(date) ==
    Midnight(DayNumber(Civil(date.day).y, Civil(date.day).m, 1))

\* addMonths: the same day of the month amount months later, or the last
\* day of that month if it is shorter; the wall clock is kept
addMonths(date, amount) ==
    LET civil == Civil(date.day)
        months == civil.y * 12 + (civil.m - 1) + amount
        year == months \div 12
        month == (months % 12) + 1
        daysInMonth == DaysInMonth(year, month)
        dayOfMonth == IF civil.d >= daysInMonth THEN daysInMonth ELSE civil.d
    IN  [day |-> DayNumber(year, month, dayOfMonth), clock |-> date.clock]

subMonths(date, amount) == addMonths(date, -amount)

\* compareLocalAsc of differenceInDays: the sign of the difference of the
\* local date and time of day
compareLocalAsc(dateLeft, dateRight) ==
    IF dateLeft.day # dateRight.day
    THEN (IF dateLeft.day > dateRight.day THEN 1 ELSE -1)
    ELSE IF dateLeft.clock > dateRight.clock THEN 1
    ELSE IF dateLeft.clock < dateRight.clock THEN -1
    ELSE 0

differenceInCalendarDays(dateLeft, dateRight) == dateLeft.day - dateRight.day

\* differenceInDays: the number of full days, rounded toward zero
differenceInDays(dateLeft, dateRight) ==
    LET sign == compareLocalAsc(dateLeft, dateRight)
        calendarDays == differenceInCalendarDays(dateLeft, dateRight)
        difference == IF calendarDays < 0 THEN -calendarDays ELSE calendarDays
        moved == [dateLeft EXCEPT !.day = @ - sign * difference]
        isLastDayNotFull ==
            IF compareLocalAsc(moved, dateRight) = -sign THEN 1 ELSE 0
    IN  sign * (difference - isLastDayNotFull)

\* the integer part an amount of days is cut to by addDays, for the amount
\* whole - ms / MsPerDay (ms >= 0): rounded toward zero
toInteger(whole, ms) ==
    LET q == ms \div MsPerDay
        r == ms % MsPerDay
    IN  IF r = 0 THEN whole - q
        ELSE IF whole - q - 1 >= 0 THEN whole - q - 1
        ELSE whole - q

(***************************************************************************)
(* types: RACE_DISTANCES                                                   *)
(***************************************************************************)
\* (variant: the sprint recovery is left at 0 days)
RACE_DISTANCES_sprintUnset ==
    [sprint  |-> [min |-> 0,  max |-> 0,  recommended |-> 0],
     olympic |-> [min |-> 5,  max |-> 7,  recommended |-> 6],
     middle  |-> [min |-> 10, max |-> 14, recommended |-> 12],
     long    |-> [min |-> 25, max |-> 35, recommended |-> 30]]

RACE_DISTANCES ==
    [sprint  |-> [min |-> 2,  max |-> 4,  recommended |-> 3],
     olympic |-> [min |-> 5,  max |-> 7,  recommended |-> 6],
     middle  |-> [min |-> 10, max |-> 14, recommended |-> 12],
     long    |-> [min |-> 25, max |-> 35, recommended |-> 30]]

RaceDistance == {"sprint", "olympic", "middle", "long"}

\* distance values outside RaceDistance that reach the code: the legacy
\* event types of the earlier schema
LegacyTypes == {"training"}

\* a thrown exception, as a result
Thrown(name) == [kind |-> "throw", error |-> name]

Null == [kind |-> "null"]

IsThrown(r) == r.kind = "throw"

(***************************************************************************)
(* utils/dateUtils                                                         *)
(***************************************************************************)
\* calculateRecoveryPeriod(race); RACE_DISTANCES[race.distance] is undefined
\* for a distance that is no key, and reading .recovery of it throws
\* (variant: the recovery starts on the race day itself)
recoveryStart_onRaceDay(raceDate) == raceDate

\* "Recovery starts the day after the race"
recoveryStart(raceDate) == addDays(raceDate, 1)

\* (variant: only the long distance is heavy)
intensity_longOnly(distance) ==
    IF distance = "sprint" THEN "light"
    ELSE IF distance = "long" THEN "heavy"
    ELSE "moderate"

\* "Determine recovery intensity based on distance"
intensity(distance) ==
    IF distance = "sprint" THEN "light"
    ELSE IF distance = "olympic" THEN "moderate"
    ELSE "heavy"

recoveryOf(race, config) ==
    LET raceDate == parseISO(race.date)
        recoveryDays == config.recommended
    IN  [kind      |-> "recovery",
         race      |-> race,
         startDate |-> recoveryStart(raceDate),
         endDate   |-> addDays(raceDate, recoveryDays),
         days      |-> recoveryDays,
         intensity |-> intensity(race.distance)]

\* (variant: an unknown distance falls back to the sprint configuration)
calculateRecoveryPeriod_defaulting(race) ==
    IF race.distance \notin DOMAIN RACE_DISTANCES
    THEN recoveryOf(race, RACE_DISTANCES["sprint"])
    ELSE recoveryOf(race, RACE_DISTANCES[race.distance])

calculateRecoveryPeriod(race) ==
    IF race.distance \notin DOMAIN RACE_DISTANCES THEN Thrown("TypeError")
    ELSE recoveryOf(race, RACE_DISTANCES[race.distance])

\* (variant: the list is reversed in place, as Array.prototype.reverse does)
racesAfter_reversed(list) == [i \in 1..Len(list) |-> list[Len(list) + 1 - i]]

\* the array of races a function was given, after the call: the functions
\* read race.date, race.distance and race.title and call map, filter, some
\* and join, which build new arrays and strings and assign to nothing
racesAfter(list) == list

\* existingRaces.map(calculateRecoveryPeriod)
mapRecovery(list) == [i \in 1..Len(list) |-> calculateRecoveryPeriod(list[i])]

AnyThrown(periods) == \E i \in 1..Len(periods) : IsThrown(periods[i])

\* (variant: only the end of each period is compared)
getRecoveryPeriodsForDate_noStart(date, recoveryPeriods) ==
    SelectSeq(recoveryPeriods, LAMBDA period : DateLE(date, period.endDate))

getRecoveryPeriodsForDate(date, recoveryPeriods) ==
    SelectSeq(recoveryPeriods,
              LAMBDA period : isWithinInterval(date, period.startDate, period.endDate))

\* (variant: 'error' only when every conflicting period is heavy)
conflictSeverity_every(conflictingRecovery) ==
    IF \A i \in 1..Len(conflictingRecovery) :
           conflictingRecovery[i].intensity = "heavy"
    THEN "error" ELSE "warning"

\* hasHeavyRecovery ? 'error' : 'warning'
conflictSeverity(conflictingRecovery) ==
    IF \E i \in 1..Len(conflictingRecovery) :
           conflictingRecovery[i].intensity = "heavy"
    THEN "error" ELSE "warning"

\* Array.prototype.join(separator)
RECURSIVE join(_, _)
join(strings, separator) ==
    IF Len(strings) = 0 THEN ""
    ELSE IF Len(strings) = 1 THEN strings[1]
    ELSE join(SubSeq(strings, 1, Len(strings) - 1), separator)
             \o separator \o strings[Len(strings)]

RECURSIVE insertByStart(_, _)
insertByStart(sorted, period) ==
    IF sorted = <<>> THEN <<period>>
    ELSE IF period.startDate.day < Head(sorted).startDate.day
         THEN <<period>> \o sorted
         ELSE <<Head(sorted)>> \o insertByStart(Tail(sorted), period)

RECURSIVE sortByStart(_)
sortByStart(periods) ==
    IF periods = <<>> THEN <<>>
    ELSE insertByStart(sortByStart(SubSeq(periods, 1, Len(periods) - 1)),
                       periods[Len(periods)])

\* (variant: the titles are listed in the order of the recovery start dates)
titlesOf_sortedByDate(periods) ==
    [i \in 1..Len(periods) |-> sortByStart(periods)[i].race.title]

\* conflictingRecovery.map(r => r.race.title)
titlesOf(periods) == [i \in 1..Len(periods) |-> periods[i].race.title]

\* (variant: a race inside the candidate's own recovery period conflicts too)
detectSchedulingConflicts_mutual(proposed, existingRaces) ==
    LET proposedDate == parseISO(proposed.date)
        own == calculateRecoveryPeriod(proposed)
        recoveryPeriods == mapRecovery(existingRaces)
    IN  IF AnyThrown(recoveryPeriods) \/ IsThrown(own) THEN Thrown("TypeError")
        ELSE
            LET conflictingRecovery ==
                    SelectSeq(recoveryPeriods,
                              LAMBDA period :
                                  \/ isWithinInterval(proposedDate, period.startDate,
                                                      period.endDate)
                                  \/ isWithinInterval(parseISO(period.race.date),
                                                      own.startDate, own.endDate))
            IN  IF Len(conflictingRecovery) = 0 THEN Null
                ELSE [kind                |-> "conflict",
                      proposedRace        |-> proposed,
                      conflictingRecovery |-> conflictingRecovery,
                      severity            |-> conflictSeverity(conflictingRecovery),
                      message             |-> ""]

detectSchedulingConflicts(proposed, existingRaces) ==
    LET proposedDate == parseISO(proposed.date)
        recoveryPeriods == mapRecovery(existingRaces)
    IN  IF AnyThrown(recoveryPeriods) THEN Thrown("TypeError")
        ELSE
            LET conflictingRecovery ==
                    getRecoveryPeriodsForDate(proposedDate, recoveryPeriods)
            IN  IF Len(conflictingRecovery) = 0 THEN Null
                ELSE [kind                |-> "conflict",
                      proposedRace        |-> proposed,
                      conflictingRecovery |-> conflictingRecovery,
                      severity            |-> conflictSeverity(conflictingRecovery),
                      message             |->
                          "This date conflicts with recovery period"
                              \o (IF Len(conflictingRecovery) > 1 THEN "s" ELSE "")
                              \o " from: "
                              \o join(titlesOf(conflictingRecovery), ", ")]

\* (variant: flagged when the day has a race or a recovery period)
dayHasConflict_either(dayRaces, dayRecoveryPeriods) ==
    Len(dayRaces) > 0 \/ Len(dayRecoveryPeriods) > 0

\* "Check for conflicts (race scheduled during recovery)"
dayHasConflict(dayRaces, dayRecoveryPeriods) ==
    Len(dayRaces) > 0 /\ Len(dayRecoveryPeriods) > 0

\* (variant: only the recovery periods of races dated in the day's month)
dayRecoveryPeriods_sameMonth(day, allRecoveryPeriods) ==
    SelectSeq(getRecoveryPeriodsForDate(day, allRecoveryPeriods),
              LAMBDA period : isSameMonth(parseISO(period.race.date), day))

\* "Find recovery periods affecting this day"
dayRecoveryPeriods(day, allRecoveryPeriods) ==
    getRecoveryPeriodsForDate(day, allRecoveryPeriods)

\* the days of the grid: calendarStart .. calendarEnd
calendarGrid(z, date) ==
    LET start == startOfWeek(date)
        end == endOfWeek(date)
        calendarStart == subDays(start, IF getDay(start) = 1 THEN 0 ELSE 7)
        calendarEnd == addDays(end, toInteger(42, msBetween(z, end, calendarStart)))
    IN  eachDayOfInterval(calendarStart, calendarEnd)

getCalendarDays(z, date, raceList) ==
    LET days == calendarGrid(z, date)
        allRecoveryPeriods == mapRecovery(raceList)
    IN  IF AnyThrown(allRecoveryPeriods) THEN Thrown("TypeError")
        ELSE [kind |-> "days",
              days |->
                [i \in 1..Len(days) |->
                    LET day == days[i]
                        dayRaces ==
                            SelectSeq(raceList,
                                      LAMBDA race : isSameDay(parseISO(race.date), day))
                        periods == dayRecoveryPeriods(day, allRecoveryPeriods)
                    IN  [date            |-> day,
                         isCurrentMonth  |-> isSameMonth(day, date),
                         races           |-> dayRaces,
                         recoveryPeriods |-> periods,
                         hasConflict     |-> dayHasConflict(dayRaces, periods)]]]

(***************************************************************************)
(* Inputs of the calculator.                                               *)
(***************************************************************************)
Distances == RaceDistance \cup LegacyTypes

\* a race as the calculator reads it (id, title, date, distance)
Race(id, title, n, distance) ==
    [id |-> id, title |-> title, date |-> Civil(n), distance |-> distance]

RaceIds == <<"r1", "r2", "r3", "r4", "r5">>

RaceTitles == <<"Spring Sprint", "City Olympic", "Lake Middle", "Iron Long", "Relay">>

\* the lists of at most n races, the i-th with RaceIds[i] and RaceTitles[i],
\* dated on a day of dayChoices with a distance of distanceChoices
RECURSIVE RaceLists(_, _, _)
RaceLists(n, dayChoices, distanceChoices) ==
    IF n = 0 THEN {<<>>}
    ELSE LET shorter == RaceLists(n - 1, dayChoices, distanceChoices)
         IN  shorter \cup
             {Append(l, Race(RaceIds[n], RaceTitles[n], day, dist)) :
                 l \in {x \in shorter : Len(x) = n - 1},
                 day \in dayChoices, dist \in distanceChoices}

NoOutcome == [op |-> "none", result |-> Null]

\* the inputs a specification does not vary: a candidate on 2025-10-20 and
\* the anchor 2025-10-20
DefaultProposed == Race("temp", "New Race", DayNumber(2025, 10, 20), "sprint")

DefaultAnchor == Midnight(DayNumber(2025, 10, 20))

IdleModal == [open |-> FALSE]

IdleUi == [event |-> "none"]

NoHttp == [request |-> "none"]

\* the App before it is rendered
NoApp == [mounted |-> FALSE]

\* the Calendar before it is rendered
NoCalendar == [mounted |-> FALSE]

\* the events table: the server never creates it; the database file has it
\* once init-sample-data.js has run
NoEventsTable == [exists |-> FALSE, rows |-> <<>>]

(***************************************************************************)
(* calculateRecoveryPeriod on one race of any day of the year.             *)
(***************************************************************************)
\* last day (counted from 2025-01-01) a single race is dated on
RaceDaySpan == 364

RecoveryInit ==
    /\ tz = "UTC"
    /\ \E n \in 0..RaceDaySpan, dist \in Distances :
           races = <<Race(RaceIds[1], RaceTitles[1], n, dist)>>
    /\ proposedRace = DefaultProposed
    /\ anchorDate = DefaultAnchor
    /\ outcome = NoOutcome
    /\ modal = IdleModal
    /\ ui = IdleUi
    /\ db = <<>>
    /\ events = NoEventsTable
    /\ uuid = 0
    /\ http = NoHttp
    /\ app = NoApp
    /\ net = <<>>
    /\ now = Midnight(0)
    /\ calendar = NoCalendar

CalculateRecoveryPeriod ==
    /\ outcome.op = "none"
    /\ \E i \in 1..Len(races) :
           outcome' = [op |-> "calculateRecoveryPeriod", race |-> races[i],
                       result |-> calculateRecoveryPeriod(races[i])]
    /\ races' = racesAfter(races)
    /\ UNCHANGED <<tz, proposedRace, anchorDate, modal, ui, db, events, uuid, http,
                   app, net, now, calendar>>

RecoveryNext == CalculateRecoveryPeriod

SpecRecovery == RecoveryInit /\ [][RecoveryNext]_vars

(***************************************************************************)
(* detectSchedulingConflicts on a candidate and a list of existing races.  *)
(***************************************************************************)
\* the first candidate day: 2025-10-20
FirstCandidateDay == DayNumber(2025, 10, 20)

\* the days existing races are dated on: the first candidate day and two
\* days later
ExistingRaceDays == {FirstCandidateDay, FirstCandidateDay + 2}

CandidateDistances == {"sprint", "long"}

ConflictInit ==
    /\ tz = "UTC"
    /\ races \in RaceLists(MaxRaces, ExistingRaceDays, Distances)
    /\ \E k \in 0..CandidateSpan, dist \in CandidateDistances :
           proposedRace = Race("temp", "New Race", FirstCandidateDay + k, dist)
    /\ anchorDate = DefaultAnchor
    /\ outcome = NoOutcome
    /\ modal = IdleModal
    /\ ui = IdleUi
    /\ db = <<>>
    /\ events = NoEventsTable
    /\ uuid = 0
    /\ http = NoHttp
    /\ app = NoApp
    /\ net = <<>>
    /\ now = Midnight(0)
    /\ calendar = NoCalendar

DetectSchedulingConflicts ==
    /\ outcome.op = "none"
    /\ outcome' = [op |-> "detectSchedulingConflicts",
                   result |-> detectSchedulingConflicts(proposedRace, races)]
    /\ races' = racesAfter(races)
    /\ UNCHANGED <<tz, proposedRace, anchorDate, modal, ui, db, events, uuid, http,
                   app, net, now, calendar>>

ConflictNext == DetectSchedulingConflicts

SpecConflict == ConflictInit /\ [][ConflictNext]_vars

(***************************************************************************)
(* getCalendarDays on an anchor Date and a list of races, in a time zone.  *)
(***************************************************************************)
\* the first anchor day: Sunday 2025-10-26, the day the clocks go back in
\* Europe/Berlin; the anchors run through the week after it, in which they
\* go back in America/New_York, into November
FirstAnchorDay == DayNumber(2025, 10, 26)

\* the days races are dated on: 2025-10-17, before every grid tried, and
\* 2025-10-28, inside a middle-distance recovery that starts on the first
GridRaceDays == {DayNumber(2025, 10, 17), DayNumber(2025, 10, 28)}

GridDistances == {"sprint", "middle"}

CalendarInit ==
    /\ tz \in TimeZones
    /\ races \in RaceLists(MaxCalendarRaces, GridRaceDays, GridDistances)
    /\ proposedRace = DefaultProposed
    /\ \E k \in 0..AnchorSpan : anchorDate = Midnight(FirstAnchorDay + k)
    /\ outcome = NoOutcome
    /\ modal = IdleModal
    /\ ui = IdleUi
    /\ db = <<>>
    /\ events = NoEventsTable
    /\ uuid = 0
    /\ http = NoHttp
    /\ app = NoApp
    /\ net = <<>>
    /\ now = Midnight(0)
    /\ calendar = NoCalendar

GetCalendarDays ==
    /\ outcome.op = "none"
    /\ outcome' = [op |-> "getCalendarDays",
                   result |-> getCalendarDays(tz, anchorDate, races)]
    /\ races' = racesAfter(races)
    /\ UNCHANGED <<tz, proposedRace, anchorDate, modal, ui, db, events, uuid, http,
                   app, net, now, calendar>>

CalendarNext == GetCalendarDays

SpecCalendar == CalendarInit /\ [][CalendarNext]_vars

(***************************************************************************)
(* The three operations on lists that may hold a race of unknown distance. *)
(***************************************************************************)
CalculatorInit ==
    /\ tz \in TimeZones
    /\ races \in RaceLists(MaxRaces, ExistingRaceDays, Distances)
    /\ \E dist \in CandidateDistances :
           proposedRace = Race("temp", "New Race", FirstCandidateDay + 1, dist)
    /\ anchorDate = DefaultAnchor
    /\ outcome = NoOutcome
    /\ modal = IdleModal
    /\ ui = IdleUi
    /\ db = <<>>
    /\ events = NoEventsTable
    /\ uuid = 0
    /\ http = NoHttp
    /\ app = NoApp
    /\ net = <<>>
    /\ now = Midnight(0)
    /\ calendar = NoCalendar

CalculatorNext ==
    \/ CalculateRecoveryPeriod
    \/ DetectSchedulingConflicts
    \/ GetCalendarDays

SpecCalculator == CalculatorInit /\ [][CalculatorNext]_vars

(***************************************************************************)
(* components/RaceModal (EventModal): the form, its conflict effect and    *)
(* handleSubmit.  The optional fields time, description and location take  *)
(* no part in the conflict or in the guards of handleSubmit and are left   *)
(* out of formData.                                                        *)
(***************************************************************************)
\* the empty string in a date field
EmptyDate == [y |-> 0, m |-> 0, d |-> 0]

\* String.prototype.trim on the titles the form is given
trim(title) ==
    IF title = "  " THEN ""
    ELSE IF title = " Tri " THEN "Tri"
    ELSE title

FormTitles == {"", "  ", "Tri", " Tri "}

\* the days the form's date is set to: the day before the first existing
\* race, and 3 and 6 days after it
FormDays == {FirstCandidateDay - 1, FirstCandidateDay + 3, FirstCandidateDay + 6}

FormDistances == {"sprint", "long"}
\* the day of the races already scheduled when the modal opens: 2025-10-20
ScheduledDays == {FirstCandidateDay}

\* useState initial values
InitialFormData == [title |-> "", date |-> EmptyDate, distance |-> "sprint"]

\* the modal is not rendered: its state does not exist
Unmounted(existing) ==
    [open |-> FALSE, race |-> Null, existingRaces |-> existing,
     formData |-> InitialFormData, conflict |-> Null]

\* the first effect: formData from the race prop, else from selectedDate
formDataEffect(race, selectedDate) ==
    IF race # Null
    THEN [title |-> race.title, date |-> race.date, distance |-> race.distance]
    ELSE [title |-> "", date |-> formatDate(selectedDate), distance |-> "sprint"]

\* (variant: the race being edited stays in the list)
otherRaces_unfiltered(m) == m.existingRaces

\* existingRaces.filter(r => r.id !== race?.id)
otherRaces(m) ==
    SelectSeq(m.existingRaces,
              LAMBDA r : IF m.race = Null THEN TRUE ELSE r.id # m.race.id)

\* the arguments the conflict effect gives detectSchedulingConflicts
conflictCall(m) ==
    [proposed      |-> [id       |-> IF m.race = Null THEN "temp" ELSE m.race.id,
                        title    |-> m.formData.title,
                        date     |-> m.formData.date,
                        distance |-> m.formData.distance],
     existingRaces |-> otherRaces(m)]

\* if (formData.date && formData.title)
conflictChecked(m) == m.formData.date # EmptyDate /\ m.formData.title # ""

\* the conflict effect, when it runs
conflictEffect(m) ==
    IF conflictChecked(m)
    THEN LET call == conflictCall(m)
         IN  [m EXCEPT !.conflict =
                           detectSchedulingConflicts(call.proposed, call.existingRaces)]
    ELSE m

\* one of the dependencies of the conflict effect (formData.date,
\* formData.distance, existingRaces, race?.id) changed in a render
dependenciesChanged(before, after) ==
    \/ before.formData.date # after.formData.date
    \/ before.formData.distance # after.formData.distance
    \/ before.existingRaces # after.existingRaces
    \/ before.race # after.race

\* the conflict effect runs after a render in which one of its dependencies
\* changed
afterRender(before, after) ==
    IF dependenciesChanged(before, after) THEN conflictEffect(after) ELSE after

\* no handler has been called since the modal was opened or edited
NoCall == [event |-> "none"]

\* what the render did besides setting state: the call of
\* detectSchedulingConflicts, if the conflict effect made one
effectCall(before, after) ==
    IF dependenciesChanged(before, after) /\ conflictChecked(after)
    THEN [event |-> "conflictEffect", call |-> conflictCall(after)]
    ELSE NoCall

\* what a call of handleSubmit does: the confirm prompt, onSave, onClose
SubmitResult(prompted, saved, closed) ==
    [prompted |-> prompted, onSave |-> saved, onClose |-> closed]

savedRace(formData) == [formData EXCEPT !.title = trim(formData.title)]

\* (variant: a conflict of severity 'error' blocks the save)
handleSubmit_blocking(m, proceed) ==
    IF trim(m.formData.title) = "" \/ m.formData.date = EmptyDate
    THEN SubmitResult(FALSE, <<>>, FALSE)
    ELSE IF m.conflict # Null /\ m.conflict.severity = "error"
    THEN SubmitResult(FALSE, <<>>, FALSE)
    ELSE SubmitResult(FALSE, <<savedRace(m.formData)>>, TRUE)

\* (variant: the title is tested without trimming it)
handleSubmit_untrimmed(m, proceed) ==
    IF m.formData.title = "" \/ m.formData.date = EmptyDate
    THEN SubmitResult(FALSE, <<>>, FALSE)
    ELSE IF m.conflict # Null /\ m.conflict.severity = "error" /\ ~proceed
    THEN SubmitResult(TRUE, <<>>, FALSE)
    ELSE SubmitResult(m.conflict # Null /\ m.conflict.severity = "error",
                      <<savedRace(m.formData)>>, TRUE)

\* handleSubmit; proceed is the user's answer to window.confirm
handleSubmit(m, proceed) ==
    IF trim(m.formData.title) = "" \/ m.formData.date = EmptyDate
    THEN SubmitResult(FALSE, <<>>, FALSE)
    ELSE IF m.conflict # Null /\ m.conflict.severity = "error" /\ ~proceed
    THEN SubmitResult(TRUE, <<>>, FALSE)
    ELSE SubmitResult(m.conflict # Null /\ m.conflict.severity = "error",
                      <<savedRace(m.formData)>>, TRUE)

ModalInit ==
    /\ tz = "UTC"
    /\ races = <<>>
    /\ proposedRace = DefaultProposed
    /\ anchorDate = DefaultAnchor
    /\ outcome = NoOutcome
    /\ \E existing \in RaceLists(MaxRaces, ScheduledDays, FormDistances) :
           modal = Unmounted(existing)
    /\ ui = NoCall
    /\ db = <<>>
    /\ events = NoEventsTable
    /\ uuid = 0
    /\ http = NoHttp
    /\ app = NoApp
    /\ net = <<>>
    /\ now = Midnight(0)
    /\ calendar = NoCalendar

\* RaceModal rendered with isOpen, race = null and a selectedDate: the
\* component mounts and its effects run (the form is filled for a new race)
OpenForCreate ==
    /\ ~modal.open
    /\ \E day \in FormDays :
           LET mounted == [Unmounted(modal.existingRaces) EXCEPT !.open = TRUE]
               filled == [mounted EXCEPT
                             !.formData = formDataEffect(Null, Midnight(day))]
           IN  /\ modal' = afterRender(conflictEffect(mounted), filled)
               /\ ui' = effectCall(conflictEffect(mounted), filled)
    /\ UNCHANGED <<tz, races, proposedRace, anchorDate, outcome, db, events,
                 uuid, http, app, net,
                 now, calendar>>

\* RaceModal rendered with isOpen and a race prop: the component mounts and
\* its effects run (the form is filled from the race being edited)
OpenForEdit ==
    /\ ~modal.open
    /\ \E i \in 1..Len(modal.existingRaces) :
           LET mounted == [Unmounted(modal.existingRaces) EXCEPT
                              !.open = TRUE, !.race = modal.existingRaces[i]]
               filled == [mounted EXCEPT
                             !.formData = formDataEffect(mounted.race, Midnight(0))]
           IN  /\ modal' = afterRender(conflictEffect(mounted), filled)
               /\ ui' = effectCall(conflictEffect(mounted), filled)
    /\ UNCHANGED <<tz, races, proposedRace, anchorDate, outcome, db, events,
                 uuid, http, app, net,
                 now, calendar>>

\* onChange of the title input
ChangeTitle ==
    /\ modal.open
    /\ \E title \in FormTitles :
           LET edited == [modal EXCEPT !.formData.title = title]
           IN  /\ modal' = afterRender(modal, edited)
               /\ ui' = effectCall(modal, edited)
    /\ UNCHANGED <<tz, races, proposedRace, anchorDate, outcome, db, events,
                 uuid, http, app, net,
                 now, calendar>>

\* onChange of the date input
ChangeDate ==
    /\ modal.open
    /\ \E date \in {Civil(day) : day \in FormDays} \cup {EmptyDate} :
           LET edited == [modal EXCEPT !.formData.date = date]
           IN  /\ modal' = afterRender(modal, edited)
               /\ ui' = effectCall(modal, edited)
    /\ UNCHANGED <<tz, races, proposedRace, anchorDate, outcome, db, events,
                 uuid, http, app, net,
                 now, calendar>>

\* onChange of the distance select
ChangeDistance ==
    /\ modal.open
    /\ \E distance \in FormDistances :
           LET edited == [modal EXCEPT !.formData.distance = distance]
           IN  /\ modal' = afterRender(modal, edited)
               /\ ui' = effectCall(modal, edited)
    /\ UNCHANGED <<tz, races, proposedRace, anchorDate, outcome, db, events,
                 uuid, http, app, net,
                 now, calendar>>

\* the form is submitted; onClose unmounts the modal
Submit ==
    /\ modal.open
    /\ \E proceed \in BOOLEAN :
           LET did == handleSubmit(modal, proceed)
           IN  /\ ui' = [event    |-> "submit",
                         race     |-> modal.race,
                         formData |-> modal.formData,
                         conflict |-> modal.conflict,
                         proceed  |-> proceed,
                         did      |-> did]
               /\ modal' = IF did.onClose THEN Unmounted(modal.existingRaces)
                           ELSE modal
    /\ UNCHANGED <<tz, races, proposedRace, anchorDate, outcome, db, events,
                 uuid, http, app, net,
                 now, calendar>>

\* the close button
CloseModal ==
    /\ modal.open
    /\ modal' = Unmounted(modal.existingRaces)
    /\ ui' = NoCall
    /\ UNCHANGED <<tz, races, proposedRace, anchorDate, outcome, db, events,
                 uuid, http, app, net,
                 now, calendar>>

ModalNext ==
    \/ OpenForCreate
    \/ OpenForEdit
    \/ ChangeTitle
    \/ ChangeDate
    \/ ChangeDistance
    \/ Submit
    \/ CloseModal

SpecModal == ModalInit /\ [][ModalNext]_vars

(***************************************************************************)
(* components/Calendar: the month on display and its grid, recomputed by   *)
(* the effect whenever currentDate changes.                                *)
(***************************************************************************)
\* the times the Calendar is opened at: 2025-03-31 10:00 and 2025-10-26 00:00
OpeningTimes ==
    {[day |-> DayNumber(2025, 3, 31), clock |-> 10 * MsPerHour],
     Midnight(DayNumber(2025, 10, 26))}

\* the effect: setCalendarDays(getCalendarDays(startOfMonth(currentDate), races))
shown(z, currentDate, raceList) ==
    [mounted      |-> TRUE,
     currentDate  |-> currentDate,
     calendarDays |-> getCalendarDays(z, startOfMonth(currentDate), raceList)]

MonthInit ==
    /\ tz \in TimeZones
    /\ races \in RaceLists(1, GridRaceDays, GridDistances)
    /\ proposedRace = DefaultProposed
    /\ anchorDate = DefaultAnchor
    /\ outcome = NoOutcome
    /\ modal = IdleModal
    /\ ui = IdleUi
    /\ db = <<>>
    /\ events = NoEventsTable
    /\ uuid = 0
    /\ http = NoHttp
    /\ app = NoApp
    /\ net = <<>>
    /\ now \in OpeningTimes
    /\ calendar = NoCalendar

\* the Calendar is rendered: currentDate is new Date() and the effect runs
MountCalendar ==
    /\ ~calendar.mounted
    /\ calendar' = shown(tz, now, races)
    /\ UNCHANGED <<tz, races, proposedRace, anchorDate, outcome, modal, ui, db,
                   events, uuid, http, app, net, now>>

\* handlePrevMonth, and the effect on the new currentDate (the months of
\* 2025 whose grid does not reach back into 2024)
HandlePrevMonth ==
    /\ calendar.mounted
    /\ LET newDate == subMonths(calendar.currentDate, 1)
       IN  /\ startOfWeek(startOfMonth(newDate)).day >= 0
           /\ calendar' = shown(tz, newDate, races)
    /\ UNCHANGED <<tz, races, proposedRace, anchorDate, outcome, modal, ui, db,
                   events, uuid, http, app, net, now>>

\* handleNextMonth, and the effect on the new currentDate
HandleNextMonth ==
    /\ calendar.mounted
    /\ LET newDate == addMonths(calendar.currentDate, 1)
       IN  /\ Civil(newDate.day).y = Epoch.year
           /\ calendar' = shown(tz, newDate, races)
    /\ UNCHANGED <<tz, races, proposedRace, anchorDate, outcome, modal, ui, db,
                   events, uuid, http, app, net, now>>

MonthNext ==
    \/ MountCalendar
    \/ HandlePrevMonth
    \/ HandleNextMonth

SpecMonth == MonthInit /\ [][MonthNext]_vars

(***************************************************************************)
(* components/ListView: the status and the conflict of each listed race,   *)
(* computed when its row is rendered.                                      *)
(***************************************************************************)
\* number of consecutive days (after the first) a row is rendered on
TodaySpan == 34

\* the first day a row is rendered on: 2025-10-18
FirstToday == DayNumber(2025, 10, 18)

\* the times of day a row is rendered at: 00:00, 10:00 and 23:59:59.999
Clocks == {0, 10 * MsPerHour, MsPerDay - 1}

\* `day${n !== 1 ? 's' : ''}`
dayWord(n) == IF n # 1 THEN "days" ELSE "day"

abs(n) == IF n < 0 THEN -n ELSE n

\* getRaceStatus(race), with new Date() returning today
getRaceStatus(race, today) ==
    LET raceDate == parseISO(race.date)
        daysDiff == differenceInDays(raceDate, today)
    IN  IF daysDiff > 0
        THEN [type |-> "upcoming",
              text |-> "In " \o ToString(daysDiff) \o " " \o dayWord(daysDiff)]
        ELSE IF daysDiff = 0
        THEN [type |-> "today", text |-> "Today"]
        ELSE LET recoveryPeriod == calculateRecoveryPeriod(race)
             IN  IF IsThrown(recoveryPeriod) THEN recoveryPeriod
                 ELSE LET recoveryDaysLeft ==
                              differenceInDays(recoveryPeriod.endDate, today)
                      IN  IF recoveryDaysLeft > 0
                          THEN [type |-> "recovery",
                                text |-> "Recovery: " \o ToString(recoveryDaysLeft)
                                             \o " " \o dayWord(recoveryDaysLeft)
                                             \o " left"]
                          ELSE [type |-> "past",
                                text |-> ToString(abs(daysDiff)) \o " "
                                             \o dayWord(abs(daysDiff)) \o " ago"]

\* races.filter(r => r.id !== race.id)
listedOthers(list, race) == SelectSeq(list, LAMBDA r : r.id # race.id)

\* getConflicts(race): the arguments given to detectSchedulingConflicts and
\* what it returned
getConflicts(list, race) ==
    LET others == listedOthers(list, race)
    IN  [proposed      |-> race,
         existingRaces |-> others,
         result        |-> detectSchedulingConflicts(race, others)]

ListViewInit ==
    /\ tz = "UTC"
    /\ races \in RaceLists(MaxRaces, ScheduledDays, FormDistances)
    /\ proposedRace = DefaultProposed
    /\ anchorDate = DefaultAnchor
    /\ outcome = NoOutcome
    /\ modal = IdleModal
    /\ ui = IdleUi
    /\ db = <<>>
    /\ events = NoEventsTable
    /\ uuid = 0
    /\ http = NoHttp
    /\ app = NoApp
    /\ net = <<>>
    /\ \E k \in 0..TodaySpan, clock \in Clocks :
           now = [day |-> FirstToday + k, clock |-> clock]
    /\ calendar = NoCalendar

\* a row of the table is rendered: the status and the conflict of its race
RenderRow ==
    \E i \in 1..Len(races) :
        /\ outcome' = [op       |-> "row",
                       race     |-> races[i],
                       today    |-> now,
                       status   |-> getRaceStatus(races[i], now),
                       conflict |-> getConflicts(races, races[i])]
        /\ UNCHANGED <<tz, races, proposedRace, anchorDate, modal, ui, db, events,
                       uuid, http, app, net, now, calendar>>

ListViewNext == RenderRow

SpecListView == ListViewInit /\ [][ListViewNext]_vars

\* the ListView and a RaceModal it opens on its races
CallersInit ==
    /\ tz = "UTC"
    /\ races \in RaceLists(MaxRaces, ScheduledDays, {"long"})
    /\ proposedRace = DefaultProposed
    /\ anchorDate = DefaultAnchor
    /\ outcome = NoOutcome
    /\ modal = Unmounted(races)
    /\ ui = NoCall
    /\ db = <<>>
    /\ events = NoEventsTable
    /\ uuid = 0
    /\ http = NoHttp
    /\ app = NoApp
    /\ net = <<>>
    /\ now = Midnight(FirstToday)
    /\ calendar = NoCalendar

CallersNext ==
    \/ RenderRow
    \/ ModalNext

SpecCallers == CallersInit /\ [][CallersNext]_vars

(***************************************************************************)
(* backend/server.js: the races table, the legacy events table and the     *)
(* routes.  A body field that is absent or the empty string is "" (both    *)
(* are falsy); the server stores a date as the text it is given and never  *)
(* parses it.                                                              *)
(***************************************************************************)
BodyTitles == {"", "City Sprint"}

\* dates are sent as 'YYYY-MM-DD': 2025-10-20 and 2025-09-30
BodyDates == {EmptyDate, Civil(FirstCandidateDay), Civil(DayNumber(2025, 9, 30))}

BodyTimes == {"", "07:00"}

BodyCategories == {"", "sprint", "training"}

\* a complete body
ReferenceBody ==
    [title |-> "City Sprint", date |-> Civil(FirstCandidateDay), time |-> "",
     distance |-> "sprint", type |-> ""]

\* the bodies sent to POST /api/races: complete ones with every date and
\* time, and the complete body with one field missing or replaced
RaceBodies ==
    {[ReferenceBody EXCEPT !.date = date, !.time = time] :
        date \in BodyDates \ {EmptyDate}, time \in BodyTimes}
    \cup {[ReferenceBody EXCEPT !.title = title] : title \in BodyTitles}
    \cup {[ReferenceBody EXCEPT !.date = date] : date \in BodyDates}
    \cup {[ReferenceBody EXCEPT !.distance = category] :
              category \in BodyCategories}

\* the bodies sent to POST /api/events: they carry a type instead of a
\* distance
EventBodies ==
    {[ReferenceBody EXCEPT !.distance = "", !.type = category] :
        category \in BodyCategories}
    \cup {[ReferenceBody EXCEPT !.distance = "", !.type = "sprint",
                                !.title = title] : title \in BodyTitles}
    \cup {[ReferenceBody EXCEPT !.distance = "", !.type = "sprint",
                                !.date = date] : date \in BodyDates}

\* the bodies sent with PUT: a new title, date and category
UpdateBodies ==
    {[title |-> "Renamed", date |-> Civil(FirstCandidateDay + 7), time |-> "",
      distance |-> category, type |-> category] : category \in {"long"}}

\* a row of the events table: the first sample event of init-sample-data.js
LegacyEvent ==
    [id |-> 0, title |-> "Morning Swim Training",
     date |-> Civil(DayNumber(2025, 7, 3)), time |-> "07:00", type |-> "training"]

EventsTables == {NoEventsTable, [exists |-> TRUE, rows |-> <<LegacyEvent>>]}

\* the ids requests are made for: those uuidv4() hands out and the legacy row's
RequestIds == 0..MaxRows

\* (variant: the legacy event types are accepted as distances)
validDistances_withLegacyTypes ==
    {"sprint", "olympic", "middle", "long", "training", "race", "recovery", "other"}

validDistances == {"sprint", "olympic", "middle", "long"}

\* INSERT INTO races ...: the new row, with the id uuidv4() returned
insertedRow(id, title, date, time, distance) ==
    [id |-> id, title |-> title, date |-> date, time |-> time,
     distance |-> distance]

Response(endpoint, body, status, json) ==
    [request |-> endpoint, body |-> body, status |-> status, json |-> json]

\* res.status(400).json({ error })
BadRequest(endpoint, body, message) ==
    Response(endpoint, body, 400, [error |-> message])

\* what a handler leaves: the tables, the uuid counter and the response
Handled(rows, table, count, response) ==
    [db |-> rows, events |-> table, uuid |-> count, http |-> response]

\* app.post('/api/races')
createRace(rows, table, count, body) ==
    LET row == insertedRow(count + 1, body.title, body.date, body.time,
                           body.distance)
    IN  IF body.title = "" \/ body.date = EmptyDate \/ body.distance = ""
        THEN Handled(rows, table, count,
                     BadRequest("POST /api/races", body,
                                "Title, date, and distance are required"))
        ELSE IF body.distance \notin validDistances
        THEN Handled(rows, table, count,
                     BadRequest("POST /api/races", body,
                                "Invalid distance. Must be one of: sprint, olympic, middle, long"))
        ELSE Handled(Append(rows, row), table, count + 1,
                     Response("POST /api/races", body, 201, row))

\* app.post('/api/events'), the legacy endpoint: distance = type || 'sprint'
createEvent(rows, table, count, body) ==
    LET raceDistance == IF body.type # "" THEN body.type ELSE "sprint"
        row == insertedRow(count + 1, body.title, body.date, body.time,
                           raceDistance)
    IN  IF body.title = "" \/ body.date = EmptyDate \/ raceDistance = ""
        THEN Handled(rows, table, count,
                     BadRequest("POST /api/events", body,
                                "Title, date, and distance are required"))
        ELSE Handled(Append(rows, row), table, count + 1,
                     Response("POST /api/events", body, 201,
                              [event |-> row, type |-> row.distance]))

\* the characters of a number written with width digits
RECURSIVE digits(_, _)
digits(n, width) ==
    IF width = 0 THEN <<>>
    ELSE Append(digits(n \div 10, width - 1), 48 + (n % 10))

\* the text of a date column, 'YYYY-MM-DD', as character codes
dateText(date) ==
    digits(date.y, 4) \o <<45>> \o digits(date.m, 2) \o <<45>> \o digits(date.d, 2)

\* the text of a time column, 'HH:MM', as character codes; NULL (no time)
\* sorts before every text
timeText(time) ==
    CASE time = ""      -> <<>>
      [] time = "07:00" -> <<48, 55, 58, 48, 48>>
      [] time = "18:30" -> <<49, 56, 58, 51, 48>>

\* SQLite's BINARY collation: a sorts before b
RECURSIVE textBefore(_, _)
textBefore(a, b) ==
    IF b = <<>> THEN FALSE
    ELSE IF a = <<>> THEN TRUE
    ELSE IF Head(a) # Head(b) THEN Head(a) < Head(b)
    ELSE textBefore(Tail(a), Tail(b))

\* (variant: ORDER BY date)
rowBefore_dateOnly(a, b) == textBefore(dateText(a.date), dateText(b.date))

\* ORDER BY date, time: row a must come before row b
rowBefore(a, b) ==
    \/ textBefore(dateText(a.date), dateText(b.date))
    \/ /\ dateText(a.date) = dateText(b.date)
       /\ textBefore(timeText(a.time), timeText(b.time))

\* SELECT * FROM races ORDER BY date, time: the orders the rows may come
\* in (rows that compare equal come in any order)
selectOrdered(rows) ==
    LET n == Len(rows)
        orders == {p \in [1..n -> 1..n] :
                      /\ \A i, j \in 1..n : i # j => p[i] # p[j]
                      /\ \A i, j \in 1..n :
                             i < j => ~rowBefore(rows[p[j]], rows[p[i]])}
    IN  {[i \in 1..n |-> rows[p[i]]] : p \in orders}

\* app.get('/api/races'): the rows in order, or 500 when db.all fails (the
\* database cannot be read)
getRaces(rows, table, count) ==
    {Handled(rows, table, count,
             Response("GET /api/races", [id |-> 0], 200, [rows |-> ordered])) :
        ordered \in selectOrdered(rows)}
    \cup {Handled(rows, table, count,
                  Response("GET /api/races", [id |-> 0], 500,
                           [error |-> "Database error"]))}

\* express: no route matches the method and path
notFound(endpoint, body) ==
    Response(endpoint, body, 404, [error |-> "Cannot " \o endpoint])

\* app.put('/api/events/:id'): UPDATE events ... WHERE id = ?
updateEvent(rows, table, count, body) ==
    LET changed == {i \in 1..Len(table.rows) : table.rows[i].id = body.id}
        updated == [id |-> body.id, title |-> body.title, date |-> body.date,
                    time |-> body.time, type |-> body.type]
    IN  IF ~table.exists
        THEN Handled(rows, table, count,
                     Response("PUT /api/events/:id", body, 500,
                              [error |-> "SQLITE_ERROR: no such table: events"]))
        ELSE IF changed = {}
        THEN Handled(rows, table, count,
                     Response("PUT /api/events/:id", body, 404,
                              [error |-> "Event not found"]))
        ELSE Handled(rows,
                     [table EXCEPT !.rows =
                         [i \in 1..Len(table.rows) |->
                             IF i \in changed THEN updated ELSE table.rows[i]]],
                     count,
                     Response("PUT /api/events/:id", body, 200, updated))

\* app.delete('/api/events/:id'): DELETE FROM events WHERE id = ?
deleteEvent(rows, table, count, body) ==
    IF ~table.exists
    THEN Handled(rows, table, count,
                 Response("DELETE /api/events/:id", body, 500,
                          [error |-> "SQLITE_ERROR: no such table: events"]))
    ELSE IF \A i \in 1..Len(table.rows) : table.rows[i].id # body.id
    THEN Handled(rows, table, count,
                 Response("DELETE /api/events/:id", body, 404,
                          [error |-> "Event not found"]))
    ELSE Handled(rows,
                 [table EXCEPT !.rows =
                     SelectSeq(table.rows, LAMBDA row : row.id # body.id)],
                 count,
                 Response("DELETE /api/events/:id", body, 200,
                          [message |-> "Event deleted successfully"]))

ServerInit ==
    /\ tz = "UTC"
    /\ races = <<>>
    /\ proposedRace = DefaultProposed
    /\ anchorDate = DefaultAnchor
    /\ outcome = NoOutcome
    /\ modal = IdleModal
    /\ ui = IdleUi
    /\ db = <<>>
    /\ events \in EventsTables
    /\ uuid = 0
    /\ http = NoHttp
    /\ app = NoApp
    /\ net = <<>>
    /\ now = Midnight(0)
    /\ calendar = NoCalendar

\* the server handles a request: the tables and the response it leaves
Serve(handled) ==
    /\ Len(handled.db) <= MaxRows
    /\ db' = handled.db
    /\ events' = handled.events
    /\ uuid' = handled.uuid
    /\ http' = handled.http
    /\ UNCHANGED <<tz, races, proposedRace, anchorDate, outcome, modal, ui, app,
                   net,
                 now, calendar>>

PostRaces == \E body \in RaceBodies : Serve(createRace(db, events, uuid, body))

PostEvents == \E body \in EventBodies : Serve(createEvent(db, events, uuid, body))

GetRaces == \E handled \in getRaces(db, events, uuid) : Serve(handled)

\* PUT /api/races/:id: the server has no such route
PutRaces ==
    \E id \in RequestIds, body \in UpdateBodies :
        Serve(Handled(db, events, uuid,
                      notFound("PUT /api/races/:id", [body EXCEPT !.type = ""] @@ [id |-> id])))

\* DELETE /api/races/:id: the server has no such route
DeleteRaces ==
    \E id \in RequestIds :
        Serve(Handled(db, events, uuid,
                      notFound("DELETE /api/races/:id", [id |-> id])))

PutEvents ==
    \E id \in RequestIds, body \in UpdateBodies :
        Serve(updateEvent(db, events, uuid,
                          [body EXCEPT !.distance = ""] @@ [id |-> id]))

DeleteEvents ==
    \E id \in RequestIds :
        Serve(deleteEvent(db, events, uuid, [id |-> id]))

ServerNext ==
    \/ PostRaces
    \/ PostEvents
    \/ GetRaces
    \/ PutRaces
    \/ DeleteRaces
    \/ PutEvents
    \/ DeleteEvents

SpecServer == ServerInit /\ [][ServerNext]_vars

(***************************************************************************)
(* App: the races, loading and error state, fetchRaces on mount and the    *)
(* create, update and delete handlers.  Every handler awaits a fetch; net  *)
(* holds the calls whose promise has not been handled yet: sent, answered  *)
(* by the server, or rejected by the network.                              *)
(***************************************************************************)
\* most fetch calls in flight at a time
MaxPending == 2

\* error: string | null
NoError == [set |-> FALSE, message |-> ""]

ErrorOf(message) == [set |-> TRUE, message |-> message]

\* Response.statusText
statusText(status) ==
    CASE status = 200 -> "OK"
      [] status = 201 -> "Created"
      [] status = 400 -> "Bad Request"
      [] status = 404 -> "Not Found"
      [] status = 500 -> "Internal Server Error"

\* `${response.status}`
statusDigits(status) ==
    CASE status = 200 -> "200"
      [] status = 201 -> "201"
      [] status = 400 -> "400"
      [] status = 404 -> "404"
      [] status = 500 -> "500"

\* Response.ok
ok(status) == status >= 200 /\ status <= 299

\* the message of the TypeError fetch rejects with
FailedToFetch == "Failed to fetch"

\* a fetch call that was sent
Sent(call, body) ==
    [call |-> call, body |-> body, stage |-> "sent", status |-> 0, json |-> Null]

\* the race data the views hand to handleRaceCreate: with a distance, or with
\* an event type copied into the distance
CreateBodies ==
    {[ReferenceBody EXCEPT !.distance = category, !.type = category] :
        category \in {"sprint", "training"}}

\* useState initial values
InitialAppState ==
    [mounted |-> TRUE, races |-> <<>>, loading |-> TRUE, error |-> NoError]

\* races stored before the App is opened: 2025-10-20 07:00, then 2025-09-30
SeedRows ==
    <<insertedRow(1, "City Sprint", Civil(FirstCandidateDay), "07:00", "sprint"),
      insertedRow(2, "Lake Middle", Civil(DayNumber(2025, 9, 30)), "", "middle")>>

\* (variant: setLoading(false) only after a successful fetch)
fetchRacesSettled_noFinally(state, call) ==
    IF call.stage = "answered" /\ ok(call.status)
    THEN [state EXCEPT !.races = call.json.rows, !.error = NoError,
                       !.loading = FALSE]
    ELSE [state EXCEPT
             !.error = ErrorOf("Unable to connect to the backend API. "
                               \o (IF call.stage = "rejected" THEN FailedToFetch
                                   ELSE "HTTP " \o statusDigits(call.status)
                                        \o ": " \o statusText(call.status)))]

\* (variant: the error message is set as it was thrown)
fetchRacesSettled_rawMessage(state, call) ==
    IF call.stage = "answered" /\ ok(call.status)
    THEN [state EXCEPT !.races = call.json.rows, !.error = NoError,
                       !.loading = FALSE]
    ELSE [state EXCEPT
             !.error = ErrorOf(IF call.stage = "rejected" THEN FailedToFetch
                               ELSE "HTTP " \o statusDigits(call.status)
                                    \o ": " \o statusText(call.status)),
             !.loading = FALSE]

\* fetchRaces after the await: try / catch / finally
fetchRacesSettled(state, call) ==
    IF call.stage = "answered" /\ ok(call.status)
    THEN [state EXCEPT !.races = call.json.rows, !.error = NoError,
                       !.loading = FALSE]
    ELSE [state EXCEPT
             !.error = ErrorOf("Unable to connect to the backend API. "
                               \o (IF call.stage = "rejected" THEN FailedToFetch
                                   ELSE "HTTP " \o statusDigits(call.status)
                                        \o ": " \o statusText(call.status))),
             !.loading = FALSE]

\* response.text() of an error response
errorText(json) == "{\"error\":\"" \o json.error \o "\"}"

\* handleRaceCreate after the await
raceCreateSettled(state, call) ==
    IF call.stage = "answered" /\ ok(call.status)
    THEN [state EXCEPT !.races = Append(state.races, call.json),
                       !.error = NoError]
    ELSE [state EXCEPT
             !.error = ErrorOf(IF call.stage = "rejected" THEN FailedToFetch
                               ELSE "Failed to create race: "
                                    \o statusDigits(call.status) \o " "
                                    \o errorText(call.json))]

\* (variant: an updated race that is not in the list is added to it)
raceUpdateSettled_upsert(state, call) ==
    IF call.stage = "answered" /\ ok(call.status)
    THEN IF \E i \in 1..Len(state.races) : state.races[i].id = call.body.id
         THEN [state EXCEPT !.races =
                  [i \in 1..Len(state.races) |->
                      IF state.races[i].id = call.body.id THEN call.json
                      ELSE state.races[i]]]
         ELSE [state EXCEPT !.races = Append(state.races, call.json)]
    ELSE [state EXCEPT
             !.error = ErrorOf(IF call.stage = "rejected" THEN FailedToFetch
                               ELSE "Failed to update race")]

\* handleRaceUpdate after the await
raceUpdateSettled(state, call) ==
    IF call.stage = "answered" /\ ok(call.status)
    THEN [state EXCEPT !.races =
             [i \in 1..Len(state.races) |->
                 IF state.races[i].id = call.body.id THEN call.json
                 ELSE state.races[i]]]
    ELSE [state EXCEPT
             !.error = ErrorOf(IF call.stage = "rejected" THEN FailedToFetch
                               ELSE "Failed to update race")]

\* (variant: the race is removed from the list whatever the response is)
raceDeleteSettled_optimistic(state, call) ==
    IF call.stage = "answered" /\ ok(call.status)
    THEN [state EXCEPT !.races =
             SelectSeq(state.races, LAMBDA race : race.id # call.body.id)]
    ELSE [state EXCEPT
             !.races = SelectSeq(state.races, LAMBDA race : race.id # call.body.id),
             !.error = ErrorOf(IF call.stage = "rejected" THEN FailedToFetch
                               ELSE "Failed to delete race")]

\* handleRaceDelete after the await
raceDeleteSettled(state, call) ==
    IF call.stage = "answered" /\ ok(call.status)
    THEN [state EXCEPT !.races =
             SelectSeq(state.races, LAMBDA race : race.id # call.body.id)]
    ELSE [state EXCEPT
             !.error = ErrorOf(IF call.stage = "rejected" THEN FailedToFetch
                               ELSE "Failed to delete race")]

\* what the server does with the request of a call
requestHandled(call) ==
    CASE call.call = "fetchRaces" -> getRaces(db, events, uuid)
      [] call.call = "handleRaceCreate" ->
             {createRace(db, events, uuid, call.body)}
      [] call.call = "handleRaceUpdate" ->
             {Handled(db, events, uuid, notFound("PUT /api/races/:id", call.body))}
      [] call.call = "handleRaceDelete" ->
             {Handled(db, events, uuid,
                      notFound("DELETE /api/races/:id", call.body))}

\* net without its i-th call
without(calls, i) == SubSeq(calls, 1, i - 1) \o SubSeq(calls, i + 1, Len(calls))

AppInit ==
    /\ tz = "UTC"
    /\ races = <<>>
    /\ proposedRace = DefaultProposed
    /\ anchorDate = DefaultAnchor
    /\ outcome = NoOutcome
    /\ modal = IdleModal
    /\ ui = IdleUi
    /\ \E stored \in 0..Len(SeedRows) :
           /\ db = SubSeq(SeedRows, 1, stored)
           /\ uuid = stored
    /\ events = NoEventsTable
    /\ http = NoHttp
    /\ app = NoApp
    /\ net = <<>>
    /\ now = Midnight(0)
    /\ calendar = NoCalendar

\* the App is rendered: useState, then useEffect(() => { fetchRaces() }, [])
Mount ==
    /\ ~app.mounted
    /\ app' = InitialAppState
    /\ net' = <<Sent("fetchRaces", [id |-> 0])>>
    /\ UNCHANGED <<tz, races, proposedRace, anchorDate, outcome, modal, ui, db,
                   events, uuid, http, now, calendar>>

\* the server receives the request of a call and answers it; the response
\* is kept with the call
ServerAnswers ==
    \E i \in 1..Len(net) :
        /\ net[i].stage = "sent"
        /\ \E handled \in requestHandled(net[i]) :
               /\ Len(handled.db) <= MaxRows
               /\ db' = handled.db
               /\ events' = handled.events
               /\ uuid' = handled.uuid
               /\ net' = [net EXCEPT ![i].stage = "answered",
                                     ![i].status = handled.http.status,
                                     ![i].json = handled.http.json]
        /\ UNCHANGED <<tz, races, proposedRace, anchorDate, outcome, modal, ui,
                       http, app, now, calendar>>

\* the request or its response is lost: fetch rejects
NetworkFails ==
    \E i \in 1..Len(net) :
        /\ net[i].stage # "rejected"
        /\ net' = [net EXCEPT ![i].stage = "rejected", ![i].status = 0,
                              ![i].json = Null]
        /\ UNCHANGED <<tz, races, proposedRace, anchorDate, outcome, modal, ui,
                       db, events, uuid, http, app, now, calendar>>

\* the awaited fetch of a call settles and the rest of the handler runs
handlerSettled(state, call) ==
    CASE call.call = "fetchRaces" -> fetchRacesSettled(state, call)
      [] call.call = "handleRaceCreate" -> raceCreateSettled(state, call)
      [] call.call = "handleRaceUpdate" -> raceUpdateSettled(state, call)
      [] call.call = "handleRaceDelete" -> raceDeleteSettled(state, call)

Settles(name) ==
    \E i \in 1..Len(net) :
        /\ net[i].call = name
        /\ net[i].stage # "sent"
        /\ app' = handlerSettled(app, net[i])
        /\ net' = without(net, i)
        /\ UNCHANGED <<tz, races, proposedRace, anchorDate, outcome, modal, ui,
                       db, events, uuid, http, now, calendar>>

FetchRacesSettles == Settles("fetchRaces")

\* a handler is called from Calendar or ListView, rendered once loading is
\* false, and sends its request
Calls(call) ==
    /\ app.mounted
    /\ ~app.loading
    /\ Len(net) < MaxPending
    /\ net' = Append(net, call)
    /\ UNCHANGED <<tz, races, proposedRace, anchorDate, outcome, modal, ui, db,
                   events, uuid, http, app, now, calendar>>

HandleRaceCreate == \E body \in CreateBodies : Calls(Sent("handleRaceCreate", body))

RaceCreateSettles == Settles("handleRaceCreate")

HandleRaceUpdate ==
    /\ app.mounted
    /\ \E i \in 1..Len(app.races), body \in UpdateBodies :
           Calls(Sent("handleRaceUpdate",
                      [body EXCEPT !.type = ""] @@ [id |-> app.races[i].id]))

RaceUpdateSettles == Settles("handleRaceUpdate")

HandleRaceDelete ==
    /\ app.mounted
    /\ \E i \in 1..Len(app.races) :
           Calls(Sent("handleRaceDelete", [id |-> app.races[i].id]))

RaceDeleteSettles == Settles("handleRaceDelete")

\* the error banner's close button: setError(null)
DismissError ==
    /\ app.mounted
    /\ ~app.loading
    /\ app.error.set
    /\ app' = [app EXCEPT !.error = NoError]
    /\ UNCHANGED <<tz, races, proposedRace, anchorDate, outcome, modal, ui, db,
                   events, uuid, http, net,
                 now, calendar>>

AppNext ==
    \/ Mount
    \/ ServerAnswers
    \/ NetworkFails
    \/ FetchRacesSettles
    \/ HandleRaceCreate
    \/ RaceCreateSettles
    \/ HandleRaceUpdate
    \/ RaceUpdateSettles
    \/ HandleRaceDelete
    \/ RaceDeleteSettles
    \/ DismissError

SpecApp == AppInit /\ [][AppNext]_vars

(***************************************************************************)
(* The App's handlers against an API that has the endpoints the README     *)
(* lists (PUT and DELETE /api/races/:id among them): each request is       *)
(* answered with success or with an error.  What the API stores is left    *)
(* out; the ids it hands out are counted.                                  *)
(***************************************************************************)
Answer(count, status, json) == [uuid |-> count, status |-> status, json |-> json]

\* the answers a request of a call can get
apiAnswers(call, count) ==
    CASE call.call = "fetchRaces" ->
             {Answer(count, 200, [rows |-> <<>>]),
              Answer(count, 500, [error |-> "Database error"])}
      [] call.call = "handleRaceCreate" ->
             {Answer(count, 400, [error |-> "Title, date, and distance are required"])}
             \cup (IF call.body.distance \in validDistances
                   THEN {Answer(count + 1, 201,
                                insertedRow(count + 1, call.body.title,
                                            call.body.date, call.body.time,
                                            call.body.distance))}
                   ELSE {})
      [] call.call = "handleRaceUpdate" ->
             {Answer(count, 200,
                     insertedRow(call.body.id, call.body.title, call.body.date,
                                 call.body.time, call.body.distance)),
              Answer(count, 404, [error |-> "Race not found"])}
      [] call.call = "handleRaceDelete" ->
             {Answer(count, 200, [message |-> "Race deleted successfully"]),
              Answer(count, 404, [error |-> "Race not found"])}

\* the ways the fetch of a call can settle: answered, or rejected by the
\* network
settlements(call, count) ==
    {[uuid |-> answer.uuid,
      call |-> [call EXCEPT !.stage = "answered", !.status = answer.status,
                            !.json = answer.json]] :
        answer \in apiAnswers(call, count)}
    \cup {[uuid |-> count, call |-> [call EXCEPT !.stage = "rejected"]]}

\* the response a handler was resumed with: the call, the id it was made
\* for (0 if none) and the status (0 if the fetch was rejected)
Resumed(call) ==
    [request |-> call.call,
     id      |-> IF "id" \in DOMAIN call.body THEN call.body.id ELSE 0,
     status  |-> call.status]

HandlersInit ==
    /\ tz = "UTC"
    /\ races = <<>>
    /\ proposedRace = DefaultProposed
    /\ anchorDate = DefaultAnchor
    /\ outcome = NoOutcome
    /\ modal = IdleModal
    /\ ui = IdleUi
    /\ db = <<>>
    /\ uuid = 0
    /\ events = NoEventsTable
    /\ http = NoHttp
    /\ app = NoApp
    /\ net = <<>>
    /\ now = Midnight(0)
    /\ calendar = NoCalendar

\* the fetch of a call in flight settles, in any order, and the handler
\* that awaits it runs to its end
ResponseArrives ==
    \E i \in 1..Len(net) :
        /\ \E settled \in settlements(net[i], uuid) :
               /\ settled.uuid <= MaxRows
               /\ uuid' = settled.uuid
               /\ app' = handlerSettled(app, settled.call)
               /\ http' = Resumed(settled.call)
        /\ net' = without(net, i)
        /\ UNCHANGED <<tz, races, proposedRace, anchorDate, outcome, modal, ui,
                       db, events, now, calendar>>

HandlersNext ==
    \/ Mount
    \/ ResponseArrives
    \/ HandleRaceCreate
    \/ HandleRaceUpdate
    \/ HandleRaceDelete

SpecHandlers == HandlersInit /\ [][HandlersNext]_vars

(***************************************************************************)
(* What the claims are stated with: calendar days counted on the calendar  *)
(* itself, and the recovery table of the specification.                    *)
(***************************************************************************)
\* the civil date after c
NextCivilDay(c) ==
    IF c.d < DaysInMonth(c.y, c.m) THEN [c EXCEPT !.d = c.d + 1]
    ELSE IF c.m < 12 THEN [y |-> c.y, m |-> c.m + 1, d |-> 1]
    ELSE [y |-> c.y + 1, m |-> 1, d |-> 1]

\* the civil date k days after c
RECURSIVE CivilPlus(_, _)
CivilPlus(c, k) == IF k = 0 THEN c ELSE CivilPlus(NextCivilDay(c), k - 1)

\* recommended days per category, as the specification's table gives them
RecommendedDays(distance) ==
    CASE distance = "sprint"  -> 3
      [] distance = "olympic" -> 6
      [] distance = "middle"  -> 12
      [] distance = "long"    -> 30

WellFormed(list) == \A i \in 1..Len(list) : list[i].distance \in RaceDistance

\* the civil date d lies k days after race r's date for some k in lo..hi
RECURSIVE Reaches(_, _, _, _)
Reaches(c, d, lo, hi) ==
    IF hi < 0 \/ hi < lo THEN FALSE
    ELSE IF lo <= 0 /\ c = d THEN TRUE
    ELSE Reaches(NextCivilDay(c), d, lo - 1, hi - 1)

DaysAfter(r, d, lo, hi) == Reaches(r.date, d, lo, hi)

\* date d lies in the recovery interval of race r: r.date + 1 .. r.date + R
InRecoveryOf(r, d) == DaysAfter(r, d, 1, RecommendedDays(r.distance))

\* the races of a conflict verdict, by id
ConflictingIds(verdict) ==
    {verdict.conflictingRecovery[j].race.id :
        j \in 1..Len(verdict.conflictingRecovery)}

C2_InclusiveInterval ==
    (outcome.op = "detectSchedulingConflicts" /\ WellFormed(races))
    => \A i \in 1..Len(races) :
           LET R == RecommendedDays(races[i].distance)
               hit == /\ outcome.result.kind = "conflict"
                      /\ races[i].id \in ConflictingIds(outcome.result)
           IN  /\ proposedRace.date = CivilPlus(races[i].date, 1) => hit
               /\ proposedRace.date = CivilPlus(races[i].date, R) => hit
               /\ proposedRace.date = CivilPlus(races[i].date, R + 1) => ~hit

\* a candidate on the last recovery day of a long race conflicts with it
C2_Witness ==
    /\ outcome.op = "detectSchedulingConflicts"
    /\ Len(races) = 1
    /\ races[1].distance = "long"
    /\ proposedRace.date = CivilPlus(races[1].date, 30)
    /\ outcome.result.kind = "conflict"
    /\ ConflictingIds(outcome.result) = {races[1].id}

\* C3: when the candidate date lies in at least one recovery interval, the
\* severity is 'error' if one of the matched intervals is heavy (middle or
\* long race) and 'warning' if none of them is.
C3_Severity ==
    (outcome.op = "detectSchedulingConflicts" /\ WellFormed(races))
    => LET matched == {i \in 1..Len(races) :
                          InRecoveryOf(races[i], proposedRace.date)}
           heavy == {i \in matched : races[i].distance \in {"middle", "long"}}
       IN  matched # {}
           => /\ outcome.result.kind = "conflict"
              /\ outcome.result.severity
                     = IF heavy # {} THEN "error" ELSE "warning"

\* a candidate inside a sprint's and a long race's recovery: 'error'
C3_Witness ==
    /\ outcome.op = "detectSchedulingConflicts"
    /\ Len(races) = 2
    /\ races[1].distance = "sprint"
    /\ races[2].distance = "long"
    /\ InRecoveryOf(races[1], proposedRace.date)
    /\ InRecoveryOf(races[2], proposedRace.date)
    /\ outcome.result.kind = "conflict"
    /\ outcome.result.severity = "error"

\* C4: detectSchedulingConflicts returns null when the candidate date lies
\* in no recovery interval of the list, and a verdict only when it lies in
\* at least one.
C4_NullIffNoOverlap ==
    (outcome.op = "detectSchedulingConflicts" /\ WellFormed(races))
    => LET matched == {i \in 1..Len(races) :
                          InRecoveryOf(races[i], proposedRace.date)}
       IN  /\ matched = {} => outcome.result = Null
           /\ outcome.result.kind = "conflict" => matched # {}
           /\ outcome.result.kind \in {"null", "conflict"}

\* a candidate dated on the day of the only existing race: no verdict
C4_Witness ==
    /\ outcome.op = "detectSchedulingConflicts"
    /\ Len(races) = 1
    /\ races[1].distance \in RaceDistance
    /\ proposedRace.date = races[1].date
    /\ outcome.result = Null

\* 2025-01-06 is a Monday
IsMonday(c) == (DayNumber(c.y, c.m, c.d) - DayNumber(2025, 1, 6)) % 7 = 0

\* the civil date of the i-th cell of a grid
CellDay(grid, i) == formatDate(grid.days[i].date)

\* C8: a day cell has hasConflict exactly when a race is dated on that day
\* and the recovery interval of a different race contains that day; no cell
\* holds the recovery interval of a race dated on the cell's own day.
C8_HasConflict ==
    (outcome.op = "getCalendarDays" /\ outcome.result.kind = "days")
    => \A i \in 1..Len(outcome.result.days) :
           LET cell == outcome.result.days[i]
               c == CellDay(outcome.result, i)
           IN  /\ cell.hasConflict
                  <=> \E a, b \in 1..Len(races) :
                          /\ races[a].id # races[b].id
                          /\ races[a].date = c
                          /\ InRecoveryOf(races[b], c)
               /\ \A j \in 1..Len(cell.recoveryPeriods) :
                      cell.recoveryPeriods[j].race.date # c

\* a day with two races under a third race's recovery window is flagged
C8_Witness ==
    /\ outcome.op = "getCalendarDays"
    /\ outcome.result.kind = "days"
    /\ \E i \in 1..Len(outcome.result.days) :
           /\ Len(outcome.result.days[i].races) = 2
           /\ Len(outcome.result.days[i].recoveryPeriods) = 1
           /\ outcome.result.days[i].hasConflict

\* C9: getCalendarDays returns exactly 42 entries on consecutive calendar
\* days in increasing order, the first a Monday.
C9_FortyTwoDays ==
    (outcome.op = "getCalendarDays" /\ outcome.result.kind = "days")
    => /\ Len(outcome.result.days) = 42
       /\ IsMonday(CellDay(outcome.result, 1))
       /\ \A i \in 1..(Len(outcome.result.days) - 1) :
              CellDay(outcome.result, i + 1)
                  = NextCivilDay(CellDay(outcome.result, i))

\* the Monday of the week of civil date c is the civil date first
MondayOnOrBefore(first, c) ==
    IsMonday(first) /\ \E k \in 0..6 : CivilPlus(first, k) = c

\* C10 as stated: for any anchor, the first entry is the Monday on or
\* before the first day of the anchor's month.
C10_MondayBeforeFirstOfMonth ==
    (outcome.op = "getCalendarDays" /\ outcome.result.kind = "days")
    => MondayOnOrBefore(CellDay(outcome.result, 1),
                        [formatDate(anchorDate) EXCEPT !.d = 1])

ValidForm(formData) == trim(formData.title) # "" /\ formData.date # EmptyDate

SeverityOf(conflict) == IF conflict = Null THEN "none" ELSE conflict.severity

\* C5: the conflict the modal holds never blocks a save: a valid form with
\* a 'warning' conflict is saved without a prompt, one with an 'error'
\* conflict is saved whenever the user confirms the prompt, and one with
\* no conflict is saved.
C5_ConflictIsAdvisory ==
    (ui.event = "submit" /\ ValidForm(ui.formData))
    => /\ SeverityOf(ui.conflict) = "warning"
          => /\ ~ui.did.prompted
             /\ ui.did.onSave = <<savedRace(ui.formData)>>
       /\ (SeverityOf(ui.conflict) = "error" /\ ui.proceed)
          => ui.did.onSave = <<savedRace(ui.formData)>>
       /\ SeverityOf(ui.conflict) = "none"
          => ui.did.onSave = <<savedRace(ui.formData)>>

\* a form whose conflict is 'error' was saved after the user confirmed
C5_Witness ==
    /\ ui.event = "submit"
    /\ ValidForm(ui.formData)
    /\ SeverityOf(ui.conflict) = "error"
    /\ ui.did.prompted
    /\ ui.proceed
    /\ Len(ui.did.onSave) = 1

\* C7: after any sequence of successful creates through POST /api/races
\* and POST /api/events, every stored race has one of the four distances.
C7_StoredDistancesValid ==
    \A i \in 1..Len(db) : db[i].distance \in RaceDistance

\* C11: the recoveryPeriods of every day cell are exactly the recovery
\* intervals, in input order, of the races of the whole input list (also
\* those dated in another month or before the grid) whose inclusive range
\* race date + 1 .. race date + recommended days contains the cell's day.
C11_CellRecoveryPeriods ==
    (outcome.op = "getCalendarDays" /\ outcome.result.kind = "days")
    => \A i \in 1..Len(outcome.result.days) :
           LET cell == outcome.result.days[i]
               c == CellDay(outcome.result, i)
               covering == SelectSeq(races, LAMBDA r : InRecoveryOf(r, c))
           IN  /\ [j \in 1..Len(cell.recoveryPeriods) |->
                      cell.recoveryPeriods[j].race] = covering
               /\ \A j \in 1..Len(cell.recoveryPeriods) :
                      LET period == cell.recoveryPeriods[j]
                      IN  /\ formatDate(period.startDate)
                                = CivilPlus(period.race.date, 1)
                          /\ formatDate(period.endDate)
                                = CivilPlus(period.race.date,
                                            RecommendedDays(period.race.distance))

\* a grid anchored in November has a cell under the recovery of a race dated
\* in October, before the grid's first day
C11_Witness ==
    /\ outcome.op = "getCalendarDays"
    /\ outcome.result.kind = "days"
    /\ formatDate(anchorDate).m = 11
    /\ \E i \in 1..Len(outcome.result.days) :
           \E j \in 1..Len(outcome.result.days[i].recoveryPeriods) :
               LET race == outcome.result.days[i].recoveryPeriods[j].race
               IN  /\ race.date.m = 10
                   /\ DayNumber(race.date.y, race.date.m, race.date.d)
                          < outcome.result.days[1].date.day

\* the titles of a list of races, each but the last followed by ", "
RECURSIVE CommaSeparated(_)
CommaSeparated(list) ==
    IF list = <<>> THEN ""
    ELSE IF Len(list) = 1 THEN list[1].title
    ELSE list[1].title \o ", " \o CommaSeparated(Tail(list))

\* C12: the message of a verdict is 'This date conflicts with recovery
\* period from: ' (one conflicting race) or '... recovery periods from: '
\* (more than one) followed by the titles of exactly the conflicting races,
\* comma-separated, in the order of the existingRaces input.
C12_MessageNamesConflicts ==
    (outcome.op = "detectSchedulingConflicts" /\ outcome.result.kind = "conflict")
    => LET conflicting ==
               SelectSeq(races, LAMBDA r : InRecoveryOf(r, proposedRace.date))
       IN  outcome.result.message
               = (IF Len(conflicting) = 1
                  THEN "This date conflicts with recovery period from: "
                  ELSE "This date conflicts with recovery periods from: ")
                 \o CommaSeparated(conflicting)

\* two conflicting races, the first of the input dated after the second and
\* titled after it in the alphabet, are named in input order
C12_Witness ==
    /\ outcome.op = "detectSchedulingConflicts"
    /\ outcome.result.kind = "conflict"
    /\ Len(races) = 2
    /\ DayNumber(races[1].date.y, races[1].date.m, races[1].date.d)
           > DayNumber(races[2].date.y, races[2].date.m, races[2].date.d)
    /\ outcome.result.message
           = "This date conflicts with recovery periods from: "
             \o races[1].title \o ", " \o races[2].title

\* C13: calculateRecoveryPeriod gives intensity 'light' to a sprint race,
\* 'moderate' to an olympic race and 'heavy' to a middle or long race; a
\* race of any other distance gets no recovery period, hence no intensity.
C13_Intensity ==
    outcome.op = "calculateRecoveryPeriod"
    => LET distance == outcome.race.distance
       IN  IF outcome.result.kind = "recovery"
           THEN /\ distance \in {"sprint", "olympic", "middle", "long"}
                /\ distance = "sprint" => outcome.result.intensity = "light"
                /\ distance = "olympic" => outcome.result.intensity = "moderate"
                /\ distance \in {"middle", "long"}
                       => outcome.result.intensity = "heavy"
           ELSE distance \notin {"sprint", "olympic", "middle", "long"}

\* a middle-distance race has a heavy recovery
C13_Witness ==
    /\ outcome.op = "calculateRecoveryPeriod"
    /\ outcome.race.distance = "middle"
    /\ outcome.result.kind = "recovery"
    /\ outcome.result.intensity = "heavy"

\* C14: the recovery interval of a race of a known distance is never
\* empty (endDate >= startDate): every category's recommended recovery is
\* at least 2 days and lies between the category's min and max.
C14_NonEmptyInterval ==
    (outcome.op = "calculateRecoveryPeriod"
        /\ outcome.race.distance \in {"sprint", "olympic", "middle", "long"})
    => /\ outcome.result.kind = "recovery"
       /\ DateLE(outcome.result.startDate, outcome.result.endDate)
       /\ outcome.result.days >= 2
       /\ \A category \in DOMAIN RACE_DISTANCES :
              /\ RACE_DISTANCES[category].recommended >= 2
              /\ RACE_DISTANCES[category].min <= RACE_DISTANCES[category].recommended
              /\ RACE_DISTANCES[category].recommended <= RACE_DISTANCES[category].max

\* the shortest interval: a sprint on 2025-02-27 recovers from 2025-02-28
\* to 2025-03-02
C14_Witness ==
    /\ outcome.op = "calculateRecoveryPeriod"
    /\ outcome.race.distance = "sprint"
    /\ outcome.race.date = [y |-> 2025, m |-> 2, d |-> 27]
    /\ formatDate(outcome.result.startDate) = [y |-> 2025, m |-> 2, d |-> 28]
    /\ formatDate(outcome.result.endDate) = [y |-> 2025, m |-> 3, d |-> 2]

\* a body of POST /api/races the claim has rejected: title, date or distance
\* missing or empty, or a distance that is none of the four
Rejectable(body) ==
    \/ body.title = ""
    \/ body.date = EmptyDate
    \/ body.distance \notin {"sprint", "olympic", "middle", "long"}

\* C17: POST /api/races answers 400 to every request whose title, date or
\* distance is missing or empty or whose distance is none of sprint,
\* olympic, middle, long, and such a request leaves the stored races as
\* they were.
C17_RejectsInvalidRace ==
    [][(http'.request = "POST /api/races" /\ Rejectable(http'.body))
           => (http'.status = 400 /\ db' = db)]_vars

\* a request with the distance 'training' was answered 400 while two races
\* were stored
C17_Witness ==
    /\ http.request = "POST /api/races"
    /\ http.body.distance = "training"
    /\ http.body.title # ""
    /\ http.status = 400
    /\ Len(db) = 2

\* minutes after midnight of a time of day; a race without a time counts as
\* the earliest
MinutesOf(time) ==
    CASE time = ""      -> -1
      [] time = "07:00" -> 7 * 60
      [] time = "18:30" -> 18 * 60 + 30

\* race a is not later than race b: by calendar date, then by time of day
NotLater(a, b) ==
    LET dayA == DayNumber(a.date.y, a.date.m, a.date.d)
        dayB == DayNumber(b.date.y, b.date.m, b.date.d)
    IN  dayA < dayB \/ (dayA = dayB /\ MinutesOf(a.time) <= MinutesOf(b.time))

\* C18: GET /api/races returns every stored race exactly once, ordered by
\* date and, among races of the same date, by time.
C18_AllRacesInOrder ==
    (http.request = "GET /api/races" /\ http.status = 200)
    => LET rows == http.json.rows
       IN  /\ Len(rows) = Len(db)
           /\ \A i \in 1..Len(db) :
                  Cardinality({j \in 1..Len(rows) : rows[j] = db[i]}) = 1
           /\ \A i \in 1..(Len(rows) - 1) : NotLater(rows[i], rows[i + 1])

\* two races of the same date, stored with the later time first, are
\* returned with the earlier time first
C18_Witness ==
    /\ http.request = "GET /api/races"
    /\ http.status = 200
    /\ Len(db) = 2
    /\ db[1].date = db[2].date
    /\ db[1].time = "07:00"
    /\ db[2].time = ""
    /\ http.json.rows = <<db[2], db[1]>>

\* C15: an update of a stored race through PUT /api/races/:id succeeds,
\* and the stored race then carries the updated fields (so that GET
\* /api/races returns them).
C15_UpdateTakesEffect ==
    (http.request = "PUT /api/races/:id"
        /\ \E i \in 1..Len(db) : db[i].id = http.body.id)
    => /\ http.status = 200
       /\ \A i \in 1..Len(db) :
              db[i].id = http.body.id
                  => /\ db[i].title = http.body.title
                     /\ db[i].date = http.body.date
                     /\ db[i].distance = http.body.distance

\* C16: a delete of a created race through DELETE /api/races/:id succeeds,
\* and no race with that id is stored afterwards (so that no later GET
\* /api/races returns it).
C16_DeleteTakesEffect ==
    (http.request = "DELETE /api/races/:id" /\ http.body.id \in 1..uuid)
    => /\ http.status = 200
       /\ \A i \in 1..Len(db) : db[i].id # http.body.id

\* the initial fetch has not settled: the App has not handled its outcome
FetchPending == \E i \in 1..Len(net) : net[i].call = "fetchRaces"

\* C19: from mount on, loading is true exactly while the initial fetch of
\* races is pending (it is false once the fetch has succeeded or failed),
\* and once false it never becomes true again.
C19_LoadingUntilFetchSettles ==
    /\ [](app.mounted => (app.loading <=> FetchPending))
    /\ [][(app.mounted /\ ~app.loading) => ~app'.loading]_vars

\* the fetch failed, loading is false and a later create was answered
C19_Witness ==
    /\ app.mounted
    /\ ~app.loading
    /\ ~FetchPending
    /\ app.error.set
    /\ Len(app.races) = 1

\* the details fetchRaces appends to its error message
FetchFailures ==
    {"Failed to fetch", "HTTP 500: Internal Server Error", "HTTP 404: Not Found",
     "HTTP 400: Bad Request"}

\* C20: when the initial fetch fails (rejected, or answered with a non-OK
\* status) the App is left with loading false, an error message that starts
\* with 'Unable to connect to the backend API' and an empty race list; when
\* it succeeds, the race list is the returned list and the error is null.
C20_FetchOutcome ==
    [][\A i \in 1..Len(net) :
           (net[i].call = "fetchRaces" /\ ~(\E j \in 1..Len(net') :
                                               net'[j].call = "fetchRaces"))
           => IF net[i].stage = "answered" /\ net[i].status = 200
              THEN /\ ~app'.loading
                   /\ app'.races = net[i].json.rows
                   /\ app'.error = NoError
              ELSE /\ ~app'.loading
                   /\ app'.races = <<>>
                   /\ app'.error.set
                   /\ \E detail \in FetchFailures :
                          app'.error.message
                              = "Unable to connect to the backend API. "
                                \o detail]_vars

\* the fetch was answered 500: loading is false, the error is shown and the
\* race list is empty although the server stores races
C20_Witness ==
    /\ app.mounted
    /\ ~app.loading
    /\ app.races = <<>>
    /\ app.error
           = [set |-> TRUE,
              message |-> "Unable to connect to the backend API. HTTP 500: Internal Server Error"]
    /\ Len(db) = 2
    /\ net = <<>>

\* C21: every call of detectSchedulingConflicts the UI makes for a race that
\* already exists (the conflict effect of a RaceModal that edits a race, and
\* getConflicts for a row of the ListView) is given a list of existing races
\* none of which has the candidate's id.
C21_CallersExcludeOwnId ==
    /\ (ui.event = "conflictEffect" /\ modal.race # Null) =>
           \A i \in 1..Len(ui.call.existingRaces) :
               ui.call.existingRaces[i].id # ui.call.proposed.id
    /\ outcome.op = "row" =>
           \A i \in 1..Len(outcome.conflict.existingRaces) :
               outcome.conflict.existingRaces[i].id # outcome.conflict.proposed.id

\* a row of a list of two races has been rendered, and the conflict effect
\* of a modal editing one of the two has called with the other one
C21_Witness ==
    /\ Len(races) = 2
    /\ outcome.op = "row"
    /\ Len(outcome.conflict.existingRaces) = 1
    /\ ui.event = "conflictEffect"
    /\ modal.race # Null
    /\ ui.call.proposed.id = modal.race.id
    /\ Len(ui.call.existingRaces) = 1

Blank(title) == title \in {"", "  "}

\* C23: RaceModal gives onSave only a race whose title, trimmed, is not
\* blank and whose date is not empty; a submit with a blank title or an
\* empty date calls neither onSave nor onClose, and neither does a submit
\* the user declines at the conflict prompt.
C23_SaveGuards ==
    ui.event = "submit" =>
        /\ \A i \in 1..Len(ui.did.onSave) :
               /\ ~Blank(ui.did.onSave[i].title)
               /\ ui.did.onSave[i].date # EmptyDate
        /\ (Blank(ui.formData.title) \/ ui.formData.date = EmptyDate) =>
               (ui.did.onSave = <<>> /\ ~ui.did.onClose)
        /\ (ui.did.prompted /\ ~ui.proceed) =>
               (ui.did.onSave = <<>> /\ ~ui.did.onClose)

\* a form with a title of spaces and a date was submitted, and nothing was
\* called
C23_Witness ==
    /\ ui.event = "submit"
    /\ ui.formData.title = "  "
    /\ ui.formData.date # EmptyDate
    /\ ui.did.onSave = <<>>
    /\ ~ui.did.onClose
    /\ modal.open

\* C24: the grid the Calendar shows (getCalendarDays of the first day of
\* the month on display) holds every day of that month exactly once, and
\* isCurrentMonth is true for exactly the entries dated in that month.
C24_CurrentMonth ==
    calendar.mounted =>
        LET grid == calendar.calendarDays.days
            month == Civil(calendar.currentDate.day)
        IN  /\ \A d \in 1..DaysInMonth(month.y, month.m) :
                   Cardinality({i \in 1..Len(grid) :
                                   formatDate(grid[i].date) = [month EXCEPT !.d = d]}) = 1
            /\ \A i \in 1..Len(grid) :
                   grid[i].isCurrentMonth <=>
                       (formatDate(grid[i].date).y = month.y
                           /\ formatDate(grid[i].date).m = month.m)

\* the Calendar shows February 2025 after it was opened on the 26th of a
\* later month: the grid runs from January into March
C24_Witness ==
    /\ calendar.mounted
    /\ Civil(calendar.currentDate.day) = [y |-> 2025, m |-> 2, d |-> 26]
    /\ ~calendar.calendarDays.days[1].isCurrentMonth
    /\ calendar.calendarDays.days[6].isCurrentMonth
    /\ ~calendar.calendarDays.days[40].isCurrentMonth

\* the verdict on the form as it is submitted: detectSchedulingConflicts on
\* the form's date and the existing races other than the one being edited
VerdictOnSubmit ==
    detectSchedulingConflicts(
        [id |-> "temp", title |-> ui.formData.title, date |-> ui.formData.date,
         distance |-> ui.formData.distance],
        SelectSeq(modal.existingRaces,
                  LAMBDA r : IF ui.race = Null THEN TRUE ELSE r.id # ui.race.id))

\* the races a conflict state names (none if there is no conflict)
NamedBy(conflict) == IF conflict = Null THEN {} ELSE ConflictingIds(conflict)

\* C25: whenever the form is submitted with a title and a date, the
\* conflict state that decides about the prompt is the verdict of
\* detectSchedulingConflicts on the form's current date and the other
\* existing races: the same severity and the same conflicting races.
C25_ConflictIsCurrent ==
    (ui.event = "submit" /\ ValidForm(ui.formData)) =>
        /\ SeverityOf(ui.conflict) = SeverityOf(VerdictOnSubmit)
        /\ NamedBy(ui.conflict) = NamedBy(VerdictOnSubmit)

\* the civil date a is before the civil date b
CivilBefore(a, b) ==
    \/ a.y < b.y
    \/ a.y = b.y /\ a.m < b.m
    \/ a.y = b.y /\ a.m = b.m /\ a.d < b.d

\* C26: detectSchedulingConflicts reports a conflict only with races dated
\* before the candidate (never with a race of the same day or a later one),
\* and its verdict is the same whatever the candidate's own distance is.
C26_OnlyEarlierRaces ==
    (outcome.op = "detectSchedulingConflicts" /\ ~IsThrown(outcome.result)) =>
        /\ outcome.result # Null =>
               \A j \in 1..Len(outcome.result.conflictingRecovery) :
                   CivilBefore(outcome.result.conflictingRecovery[j].race.date,
                               proposedRace.date)
        /\ \A distance \in Distances :
               LET other == detectSchedulingConflicts(
                                [proposedRace EXCEPT !.distance = distance], races)
               IN  /\ ~IsThrown(other)
                   /\ SeverityOf(other) = SeverityOf(outcome.result)
                   /\ NamedBy(other) = NamedBy(outcome.result)

\* a long-distance candidate two days before the only existing race, and on
\* the day of no race, has no conflict
C26_Witness ==
    /\ outcome.op = "detectSchedulingConflicts"
    /\ outcome.result = Null
    /\ proposedRace.distance = "long"
    /\ Len(races) = 2
    /\ races[1].date = proposedRace.date
    /\ proposedRace.date = Civil(FirstCandidateDay)
    /\ races[2].date = Civil(FirstCandidateDay + 2)

\* the ids of the races of a list
IdsOf(list) == {list[i].id : i \in 1..Len(list)}

\* the App has loaded and no request of it is in flight
AllSettled == app.mounted /\ ~app.loading /\ net = <<>>

\* C27: with the one client, once every request the App has issued has
\* completed, the ids of the App's race list are the ids of the rows of the
\* server's races table.
C27_SameRaceIds == AllSettled => IdsOf(app.races) = IdsOf(db)

\* a step in which the fetch of a create, update or delete settles
MutationSettles ==
    /\ Len(net') = Len(net) - 1
    /\ http'.request \in {"handleRaceCreate", "handleRaceUpdate", "handleRaceDelete"}

\* the status of a response that is OK (a rejected fetch has status 0)
Succeeded(status) == status \in 200..299

\* C28: when a create, update or delete request fails (answered with a
\* non-OK status, or rejected by the network) the App's race list stays as
\* it was and an error message is set; the list changes only with a
\* successful response: a create appends one race, an update replaces the
\* race of that id, a delete removes the race of that id.
C28_ListChangesOnSuccessOnly ==
    [][/\ (MutationSettles /\ ~Succeeded(http'.status)) =>
              (app'.races = app.races /\ app'.error.set)
       /\ (MutationSettles /\ Succeeded(http'.status)) =>
              CASE http'.request = "handleRaceCreate" ->
                       /\ Len(app'.races) = Len(app.races) + 1
                       /\ SubSeq(app'.races, 1, Len(app.races)) = app.races
                       /\ app'.races[Len(app'.races)].id = uuid'
                       /\ uuid' = uuid + 1
                [] http'.request = "handleRaceUpdate" ->
                       /\ Len(app'.races) = Len(app.races)
                       /\ \A k \in 1..Len(app.races) :
                              IF app.races[k].id = http'.id
                              THEN /\ app'.races[k].id = http'.id
                                   /\ app'.races[k].title = "Renamed"
                              ELSE app'.races[k] = app.races[k]
                [] http'.request = "handleRaceDelete" ->
                       app'.races = SelectSeq(app.races,
                                              LAMBDA race : race.id # http'.id)
       /\ (app.mounted /\ ~app.loading /\ Len(net') >= Len(net)) =>
              app'.races = app.races]_vars

\* a delete was answered 404: the race is still in the list and the error
\* is set
C28_Witness ==
    /\ http.request = "handleRaceDelete"
    /\ http.status = 404
    /\ http.id \in IdsOf(app.races)
    /\ app.error = ErrorOf("Failed to delete race")

\* a step in which the response of a call of the named handler arrives
Arrives(handler) == Len(net') = Len(net) - 1 /\ http'.request = handler

\* C29: in whatever order the requests in flight settle, the response of
\* an update never adds a race to the App's list (so a race a successful
\* delete has removed is not brought back by an update of it that settles
\* later), and a successful create keeps every race of the list and adds
\* its own (so two creates in flight together are both listed).
C29_Interleavings ==
    [][/\ Arrives("handleRaceUpdate") =>
              IdsOf(app'.races) \subseteq IdsOf(app.races)
       /\ (Arrives("handleRaceCreate") /\ Succeeded(http'.status)) =>
              /\ IdsOf(app'.races) = IdsOf(app.races) \cup {uuid'}
              /\ uuid' \notin IdsOf(app.races)]_vars

\* the update of a created race was answered OK after a delete had removed
\* the race from the list (an update is only issued for a listed race, and
\* only a delete removes one): the race is still not listed
C29_Witness ==
    /\ http.request = "handleRaceUpdate"
    /\ http.status = 200
    /\ http.id \in 1..uuid
    /\ http.id \notin IdsOf(app.races)
    /\ app.mounted
    /\ net = <<>>

\* the number of calendar days from the civil date a to the later date b
RECURSIVE DaysFromTo(_, _)
DaysFromTo(a, b) == IF a = b THEN 0 ELSE 1 + DaysFromTo(NextCivilDay(a), b)

\* C30: whatever the time of day, getRaceStatus labels a race 'today'
\* exactly when its date is the current calendar date, 'upcoming' with the
\* text 'In N day(s)' exactly when its date is N > 0 calendar days after
\* the current date, and 'recovery' exactly when the race is past and the
\* current date lies in its recovery interval.
C30_RaceStatus ==
    outcome.op = "row" =>
        LET race == outcome.race
            current == Civil(outcome.today.day)
            status == outcome.status
        IN  /\ status.type = "today" <=> race.date = current
            /\ status.type = "upcoming" <=> CivilBefore(current, race.date)
            /\ CivilBefore(current, race.date) =>
                   LET n == DaysFromTo(current, race.date)
                   IN  status.text = "In " \o ToString(n) \o " "
                                         \o (IF n = 1 THEN "day" ELSE "days")
            /\ status.type = "recovery" <=>
                   (CivilBefore(race.date, current) /\ InRecoveryOf(race, current))

====
